---- MODULE Spec2Model ----
(***************************************************************************)
(* Model of delta_at24.c, the Delta EVS-A-32Q56 variant of the at24 I2C    *)
(* EEPROM driver: geometry decode, address translation, the single-byte    *)
(* transfer engine with its retry loop, the locked range accessor and the  *)
(* sysfs callbacks.                                                        *)
(***************************************************************************)
EXTENDS Integers, Sequences, FiniteSets, TLC

(***************************************************************************)
(* Bounds of the model.                                                    *)
(***************************************************************************)
NumThreads == 2
MaxLen == 2
MaxSleep == 2
MaxJiffies == 2
MaxCount == 4

Threads == 1..NumThreads

(***************************************************************************)
(* Program constants.                                                      *)
(***************************************************************************)
AT24_SIZE_BYTELEN == 5
AT24_SIZE_FLAGS == 8

AT24_FLAG_ADDR16 == 128
AT24_FLAG_READONLY == 64
AT24_FLAG_IRUGO == 32
AT24_FLAG_TAKE8ADDR == 16
AT24_FLAG_SERIAL == 8
AT24_FLAG_MAC == 4

I2C_SMBUS_BYTE_DATA == 2
I2C_SMBUS_BLOCK_MAX == 32

ETIMEDOUT == 110
EFBIG == 27
ENODEV == 19
EINVAL == 22
ENOMEM == 12
EADDRINUSE == 98
EPFNOSUPPORT == 96
ENXIO == 6

S_IRUGO == 292
S_IRUSR == 256
S_IWUSR == 128

(***************************************************************************)
(* Integer helpers: C's bit operators on naturals.                         *)
(***************************************************************************)
RECURSIVE BitAnd(_, _)
BitAnd(a, b) ==
    IF a = 0 \/ b = 0 THEN 0
    ELSE (IF a % 2 = 1 /\ b % 2 = 1 THEN 1 ELSE 0) + 2 * BitAnd(a \div 2, b \div 2)

RECURSIVE BitOr(_, _)
BitOr(a, b) ==
    IF a = 0 THEN b
    ELSE IF b = 0 THEN a
    ELSE (IF a % 2 = 1 \/ b % 2 = 1 THEN 1 ELSE 0) + 2 * BitOr(a \div 2, b \div 2)

BIT(n) == 2 ^ n

AT24_BITMASK(x) == BIT(x) - 1

RECURSIVE ilog2(_)
ilog2(n) == IF n <= 1 THEN 0 ELSE 1 + ilog2(n \div 2)

roundup(x, y) == ((x + (y - 1)) \div y) * y

DIV_ROUND_UP(n, d) == (n + d - 1) \div d

Min(a, b) == IF a < b THEN a ELSE b

(* The low 16 bits of a char holding byte b once promoted to int: the     *)
(* sign extension sets the high byte when the build's char is signed.      *)
(* (The u16 parameter of the bus call keeps no more than these 16 bits.)   *)
CharToU16(b, isSigned) ==
    IF isSigned /\ b >= 128 THEN b + 65280 ELSE b

(***************************************************************************)
(* The device table.                                                       *)
(***************************************************************************)
AT24_DEVICE_MAGIC(len, flags) ==
    BitOr(BitOr(BIT(AT24_SIZE_FLAGS), flags) * BIT(AT24_SIZE_BYTELEN), ilog2(len))

(* The (_len, _flags) arguments each entry of delta_at24_ids hands to      *)
(* AT24_DEVICE_MAGIC, in table order.                                      *)
delta_at24_args ==
    << [name |-> "24c00-delta",    len |-> 128 \div 8, flags |-> AT24_FLAG_TAKE8ADDR],
       [name |-> "24c01-delta",    len |-> 1024 \div 8, flags |-> 0],
       [name |-> "24cs01-delta",   len |-> 16, flags |-> BitOr(AT24_FLAG_SERIAL, AT24_FLAG_READONLY)],
       [name |-> "24c02-delta",    len |-> 2048 \div 8, flags |-> 0],
       [name |-> "24cs02-delta",   len |-> 16, flags |-> BitOr(AT24_FLAG_SERIAL, AT24_FLAG_READONLY)],
       [name |-> "24mac402-delta", len |-> 48 \div 8, flags |-> BitOr(AT24_FLAG_MAC, AT24_FLAG_READONLY)],
       [name |-> "24mac602-delta", len |-> 64 \div 8, flags |-> BitOr(AT24_FLAG_MAC, AT24_FLAG_READONLY)],
       [name |-> "spd-delta",      len |-> 2048 \div 8, flags |-> BitOr(AT24_FLAG_READONLY, AT24_FLAG_IRUGO)],
       [name |-> "24c04-delta",    len |-> 4096 \div 8, flags |-> 0],
       [name |-> "24cs04-delta",   len |-> 16, flags |-> BitOr(AT24_FLAG_SERIAL, AT24_FLAG_READONLY)],
       [name |-> "24c08-delta",    len |-> 8192 \div 8, flags |-> 0],
       [name |-> "24cs08-delta",   len |-> 16, flags |-> BitOr(AT24_FLAG_SERIAL, AT24_FLAG_READONLY)],
       [name |-> "24c16-delta",    len |-> 16384 \div 8, flags |-> 0],
       [name |-> "24cs16-delta",   len |-> 16, flags |-> BitOr(AT24_FLAG_SERIAL, AT24_FLAG_READONLY)],
       [name |-> "24c32-delta",    len |-> 32768 \div 8, flags |-> AT24_FLAG_ADDR16],
       [name |-> "24cs32-delta",   len |-> 16, flags |-> BitOr(AT24_FLAG_ADDR16, BitOr(AT24_FLAG_SERIAL, AT24_FLAG_READONLY))],
       [name |-> "24c64-delta",    len |-> 65536 \div 8, flags |-> AT24_FLAG_ADDR16],
       [name |-> "24cs64-delta",   len |-> 16, flags |-> BitOr(AT24_FLAG_ADDR16, BitOr(AT24_FLAG_SERIAL, AT24_FLAG_READONLY))],
       [name |-> "24c128-delta",   len |-> 131072 \div 8, flags |-> AT24_FLAG_ADDR16],
       [name |-> "24c256-delta",   len |-> 262144 \div 8, flags |-> AT24_FLAG_ADDR16],
       [name |-> "24c512-delta",   len |-> 524288 \div 8, flags |-> AT24_FLAG_ADDR16],
       [name |-> "24c1024-delta",  len |-> 1048576 \div 8, flags |-> AT24_FLAG_ADDR16],
       [name |-> "24c2048-delta",  len |-> 2097152 \div 8, flags |-> AT24_FLAG_ADDR16] >>

(* The table: every entry but the last is built with AT24_DEVICE_MAGIC;    *)
(* "at24-delta" carries magic 0.                                           *)
delta_at24_ids ==
    [k \in 1..(Len(delta_at24_args) + 1) |->
        IF k <= Len(delta_at24_args)
        THEN [name        |-> delta_at24_args[k].name,
              driver_data |-> AT24_DEVICE_MAGIC(delta_at24_args[k].len,
                                                delta_at24_args[k].flags)]
        ELSE [name |-> "at24-delta", driver_data |-> 0]]

(* The table entry of a device name. *)
IdOf(name) ==
    delta_at24_ids[CHOOSE k \in DOMAIN delta_at24_ids : delta_at24_ids[k].name = name]

(***************************************************************************)
(* Geometry decode and the derived fields of at24_probe, as functions.     *)
(***************************************************************************)
(* The decode with the flags field read from the magic's lowest bits. *)
DecodeMagic_noshift(magic) ==
    [byte_len  |-> BIT(BitAnd(magic, AT24_BITMASK(AT24_SIZE_BYTELEN))),
     flags     |-> BitAnd(magic, AT24_BITMASK(AT24_SIZE_FLAGS)),
     page_size |-> 1]

(* The chip geometry decoded from a nonzero table magic. *)
DecodeMagic(magic) ==
    [byte_len  |-> BIT(BitAnd(magic, AT24_BITMASK(AT24_SIZE_BYTELEN))),
     flags     |-> BitAnd(magic \div BIT(AT24_SIZE_BYTELEN), AT24_BITMASK(AT24_SIZE_FLAGS)),
     page_size |-> 1]

(* at24_get_ofdata: a device node may set READONLY and, when it has a      *)
(* "pagesize" property, the page size, whatever its value.                 *)
at24_get_ofdata(chip, of) ==
    IF ~of.node THEN chip
    ELSE [chip EXCEPT !.flags = IF of.read_only THEN BitOr(@, AT24_FLAG_READONLY) ELSE @,
                      !.page_size = IF of.has_pagesize THEN of.pagesize ELSE @]

HasFlag(chip, f) == BitAnd(chip.flags, f) # 0

NumAddresses(chip) ==
    IF HasFlag(chip, AT24_FLAG_TAKE8ADDR) THEN 8
    ELSE DIV_ROUND_UP(chip.byte_len, IF HasFlag(chip, AT24_FLAG_ADDR16) THEN 65536 ELSE 256)

(* The adapter's transfer mode; "none" when the bus is unsupported. *)
UseSmbus(func) ==
    IF "I2C" \in func THEN 0
    ELSE IF func \cap {"SMBUS_READ_I2C_BLOCK", "SMBUS_READ_WORD_DATA", "SMBUS_READ_BYTE_DATA"} # {}
         THEN I2C_SMBUS_BYTE_DATA
         ELSE -1

(* The write callback installed whatever the READONLY flag. *)
WriteEnabled_rw(chip, use_smbus, func) ==
    use_smbus = 0 \/ "SMBUS_WRITE_I2C_BLOCK" \in func

(* Whether at24_probe installs the write callback. *)
WriteEnabled(chip, use_smbus, func) ==
    /\ ~HasFlag(chip, AT24_FLAG_READONLY)
    /\ (use_smbus = 0 \/ "SMBUS_WRITE_I2C_BLOCK" \in func)

WriteMax(chip, use_smbus, limit) ==
    LET m1 == IF chip.page_size > limit THEN limit ELSE chip.page_size
    IN  IF use_smbus # 0 /\ m1 > I2C_SMBUS_BLOCK_MAX THEN I2C_SMBUS_BLOCK_MAX ELSE m1

(* The at24_data a successful probe leaves behind. *)
Instance(chip, func, limit) ==
    LET smbus == UseSmbus(func)
        wr    == WriteEnabled(chip, smbus, func)
    IN  [chip          |-> chip,
         use_smbus     |-> smbus,
         write_max     |-> IF wr THEN WriteMax(chip, smbus, limit) ELSE 0,
         num_addresses |-> NumAddresses(chip),
         bin           |-> [size  |-> chip.byte_len,
                            mode  |-> (IF HasFlag(chip, AT24_FLAG_IRUGO) THEN S_IRUGO ELSE S_IRUSR)
                                      + (IF wr THEN S_IWUSR ELSE 0),
                            read  |-> TRUE,
                            write |-> wr]]

(***************************************************************************)
(* Address translator.                                                     *)
(***************************************************************************)
(* The translator with the ADDR16 test lost: always 8-bit addressing. *)
at24_translate_offset_8bit(flags, offset) ==
    [i |-> offset \div 256, offset |-> offset % 256]

at24_translate_offset(flags, offset) ==
    IF BitAnd(flags, AT24_FLAG_ADDR16) # 0
    THEN [i |-> offset \div 65536, offset |-> offset % 65536]
    ELSE [i |-> offset \div 256,   offset |-> offset % 256]

(***************************************************************************)
(* State.                                                                  *)
(***************************************************************************)
VARIABLES
    io_limit,        \* module parameter
    write_timeout,   \* module parameter, milliseconds
    HZ,              \* jiffies per second of the build
    charSigned,      \* whether the build's plain char is signed
    at24,            \* struct at24_data of the probed instance
    lock,            \* at24->lock: 0 when free, else the holding thread
    mem,             \* chip cells written so far: <<client, address>> -> byte
    ptr,             \* each chip's current address: the address last set
    jiffies,         \* the kernel clock
    pc,              \* per thread: position in the callback
    call,            \* per thread: the frame of at24_read / at24_write
    xfer,            \* per thread: the frame of at24_eeprom_read / _write
    ret,             \* per thread: what the last finished call returned
    hist,            \* per thread: what the current call has done so far
    flaky,           \* environment: whether the chip may fail a bus transaction
    wrote,           \* the callers' record of the last finished write
    probe,           \* the frame of at24_probe and what it returned
    i2c              \* the adapter's devices and the device's exposed file

vars == <<io_limit, write_timeout, HZ, charSigned, at24, lock, mem, ptr,
          jiffies, pc, call, xfer, ret, hist, flaky, wrote, probe, i2c>>

cfgVars == <<io_limit, write_timeout, HZ, charSigned, at24, flaky, probe, i2c>>

(* at24_probe's frame: where it stands, its index i, the client array of   *)
(* the at24_data it allocated (0 is NULL, else the device's address), and  *)
(* err, the value it returned.                                             *)
NoProbe == [pc |-> "unbound", addr |-> 0, num |-> 0, i |-> 0,
            client |-> << >>, inst |-> << >>, err |-> 0, arg |-> << >>]

(* The adapter: addresses other devices hold, the dummy devices alive, the *)
(* exposed file, and what the running or last probe registered and         *)
(* unregistered; whether the driver is registered with the I2C core, what  *)
(* delta_at24_init returned and the io_limit the module was loaded with.   *)
NoI2c == [busy |-> {}, dummies |-> {}, file |-> FALSE,
          registered |-> {}, unregistered |-> << >>,
          driver |-> "registered", initret |-> 0, configured |-> 0]

NoCall == [kind |-> "none", buf |-> <<>>, pos |-> 0, off |-> 0, count |-> 0,
           retval |-> 0, len |-> 0, start |-> 0]

NoXfer == [active |-> FALSE, client |-> 0, offset |-> 0, count |-> 0,
           timeout |-> 0, time |-> 0, status |-> 0, tries |-> 0, from |-> "rw",
           entered |-> 0, nak |-> FALSE]

NoHist == [locked |-> FALSE, bus |-> FALSE, nok |-> 0, failed |-> FALSE, nak |-> FALSE]

NoWrite == [valid |-> FALSE, off |-> 0, data |-> <<>>, ret |-> 0, nak |-> FALSE]

(* The outcomes a bus transaction can have. *)
BusOutcomes == IF flaky THEN BOOLEAN ELSE {TRUE}

msecs_to_jiffies(m) == (m * HZ + 999) \div 1000

(* time_before(a, b): the kernel compares the signed difference, so it is  *)
(* the order of the two instants as long as they are less than half the    *)
(* counter's range apart.                                                  *)
time_before(a, b) == a < b

(* The byte a chip holds at an address. *)
(* A cell never written holds 255, the erased state of an EEPROM.          *)
Peek(c, a) == IF <<c, a>> \in DOMAIN mem THEN mem[<<c, a>>] ELSE 255

(* The chip contents after the byte b is stored at address a of chip c:    *)
(* mem keeps the cells that differ from the erased state.                  *)
Poke(c, a, b) ==
    LET dom == IF b = 255 THEN (DOMAIN mem) \ {<<c, a>>} ELSE (DOMAIN mem) \cup {<<c, a>>}
    IN  [k \in dom |-> IF k = <<c, a>> THEN b ELSE mem[k]]

(***************************************************************************)
(* Transfer engine: what one call computes before it enters its retry loop.*)
(***************************************************************************)
(* The read count with the io_limit clamp alone. *)
ReadCount_limit(count, limit) == IF count > limit THEN limit ELSE count

(* at24_eeprom_read: the count after the io_limit clamp and the override. *)
ReadCount(count, limit) ==
    LET c1 == IF count > limit THEN limit ELSE count
    IN  1

(* The write clamp without the page-boundary test. *)
WriteCount_nopage(offset, count, write_max, page_size) ==
    IF count > write_max THEN write_max ELSE count

(* at24_eeprom_write: the count after the write_max and page clamps. *)
WriteCount(offset, count, write_max, page_size) ==
    LET c1        == IF count > write_max THEN write_max ELSE count
        next_page == roundup(offset + 1, page_size)
    IN  IF offset + c1 > next_page THEN next_page - offset ELSE c1

(* The engine's frame on entry: translated address, clamped count, deadline. *)
(* (The offsets of the model are far below 2^32, where the engine's        *)
(* unsigned parameter would truncate the caller's loff_t.)                 *)
EngineEnter(kind, off, count, from) ==
    LET tr == at24_translate_offset(at24.chip.flags, off)
    IN  [active  |-> TRUE,
         client  |-> tr.i,
         offset  |-> tr.offset,
         count   |-> IF kind = "read"
                     THEN ReadCount(count, io_limit)
                     ELSE WriteCount(tr.offset, count, at24.write_max, at24.chip.page_size),
         timeout |-> jiffies + msecs_to_jiffies(write_timeout),
         time    |-> 0,
         status  |-> 0,
         tries   |-> 0,
         from    |-> from,
         entered |-> jiffies,
         nak     |-> FALSE]

(* The command byte of both bus transactions: the high address byte. *)
CommandByte(offset) == (offset \div 256) % 256

(* The 16-bit word at24_eeprom_write hands to i2c_smbus_write_word_data. *)
WriteWord(offset, b) ==
    BitOr(offset % 256, CharToU16(b, charSigned)) % 65536

(* A loop that never looks at its deadline. *)
RetryAgain_always(time, timeout) == TRUE

(* A loop that gives up after its first pass. *)
RetryAgain_never(time, timeout) == FALSE

(* The retry condition of both do-while loops. *)
RetryAgain(time, timeout) == time_before(time, timeout)

(***************************************************************************)
(* The sysfs callbacks and the range accessor.                             *)
(***************************************************************************)
CanStart(t) == pc[t] \in {"idle", "done"} /\ jiffies < MaxJiffies

(* A call that returns before it takes the lock. *)
ReturnEarly(t, kind, off, count, value) ==
    /\ pc' = [pc EXCEPT ![t] = "done"]
    /\ call' = [call EXCEPT ![t] = [NoCall EXCEPT !.kind = kind, !.off = off, !.start = off,
                                                  !.count = count, !.len = count]]
    /\ ret' = [ret EXCEPT ![t] = value]
    /\ hist' = [hist EXCEPT ![t] = NoHist]
    /\ xfer' = [xfer EXCEPT ![t] = NoXfer]
    /\ UNCHANGED <<cfgVars, lock, mem, ptr, jiffies>>

(* A call that goes on to mutex_lock. *)
GoLock(t, kind, off, buf) ==
    /\ pc' = [pc EXCEPT ![t] = "lock"]
    /\ call' = [call EXCEPT ![t] = [kind |-> kind, buf |-> buf, pos |-> 0, off |-> off,
                                    count |-> Len(buf), retval |-> 0, len |-> Len(buf),
                                    start |-> off]]
    /\ hist' = [hist EXCEPT ![t] = NoHist]
    /\ xfer' = [xfer EXCEPT ![t] = NoXfer]
    /\ UNCHANGED <<cfgVars, lock, mem, ptr, jiffies, ret>>

(* The caller's buffer as it comes in: count bytes of earlier data. *)
CallerBuf(count) == [i \in 1..count |-> 170]

(* A memset that leaves the buffer as it was. *)
memset_none(buf, c) == buf

(* memset(buf, c, count) over the whole buffer. *)
memset(buf, c) == [i \in 1..Len(buf) |-> c]

(* at24_read without its zero-count return. *)
at24_bin_read_nozero(t, off, count) ==
    /\ CanStart(t)
    /\ at24.bin.read
    /\ GoLock(t, "read", off, memset(CallerBuf(count), 0))

(* at24_bin_read and at24_read up to mutex_lock. *)
at24_bin_read(t, off, count) ==
    /\ CanStart(t)
    /\ at24.bin.read
    /\ IF count = 0
       THEN ReturnEarly(t, "read", off, count, 0)
       ELSE GoLock(t, "read", off, memset(CallerBuf(count), 0))

(* The bound check with the comparison off by one. *)
WriteOutOfRange_gt(off, size) == off > size

(* The bound check of at24_bin_write. *)
WriteOutOfRange(off, size) == off >= size

(* at24_bin_write and at24_write up to mutex_lock. *)
at24_bin_write(t, off, data) ==
    /\ CanStart(t)
    /\ at24.bin.write
    /\ IF WriteOutOfRange(off, at24.bin.size)
       THEN ReturnEarly(t, "write", off, Len(data), -EFBIG)
       ELSE IF Len(data) = 0
            THEN ReturnEarly(t, "write", off, 0, 0)
            ELSE GoLock(t, "write", off, data)

(* A mutex that never makes a caller wait. *)
MutexFree_always(l) == TRUE

(* mutex_lock succeeds when nobody holds the mutex. *)
MutexFree(l) == l = 0

mutex_lock(t) ==
    /\ pc[t] = "lock"
    /\ MutexFree(lock)
    /\ lock' = t
    /\ pc' = [pc EXCEPT ![t] = "loop"]
    /\ hist' = [hist EXCEPT ![t].locked = TRUE]
    /\ UNCHANGED <<cfgVars, mem, ptr, jiffies, call, xfer, ret>>

(* The head of the while (count) loop: leave it, or call the engine. *)
LoopHead(t) ==
    /\ pc[t] = "loop"
    /\ IF call[t].count = 0
       THEN /\ pc' = [pc EXCEPT ![t] = "unlock"]
            /\ xfer' = xfer
       ELSE /\ pc' = [pc EXCEPT ![t] = "attempt"]
            /\ xfer' = [xfer EXCEPT ![t] =
                          EngineEnter(call[t].kind, call[t].off,
                                      IF call[t].kind = "read" THEN call[t].count ELSE 1,
                                      "rw")]
    /\ UNCHANGED <<cfgVars, lock, mem, ptr, jiffies, call, ret, hist>>

(* The failure branch without its retval == 0 test. *)
RetvalOnFailure_always(retval, status) == status

(* The retval the loop leaves with when a transfer returned status <= 0. *)
RetvalOnFailure(retval, status) == IF retval = 0 THEN status ELSE retval

(* The body of the while (count) loop after the engine has returned. *)
LoopStep(t) ==
    /\ pc[t] = "xret"
    /\ xfer[t].from = "rw"
    /\ LET status == xfer[t].status IN
       IF status <= 0
       THEN /\ call' = [call EXCEPT ![t].retval = RetvalOnFailure(@, status)]
            /\ pc' = [pc EXCEPT ![t] = "unlock"]
       ELSE /\ call' = [call EXCEPT ![t].pos = @ + status,
                                    ![t].off = @ + status,
                                    ![t].count = @ - status,
                                    ![t].retval = @ + status]
            /\ pc' = [pc EXCEPT ![t] = "loop"]
    /\ xfer' = [xfer EXCEPT ![t] = NoXfer]
    /\ UNCHANGED <<cfgVars, lock, mem, ptr, jiffies, ret, hist>>

(* The return of at24_read / at24_write with the unlock skipped when the  *)
(* loop failed on its first transfer.                                      *)
at24_rw_exit_leak(t) ==
    /\ pc[t] = "unlock"
    /\ lock' = IF call[t].retval < 0 THEN lock ELSE 0
    /\ ret' = [ret EXCEPT ![t] = call[t].retval]
    /\ pc' = [pc EXCEPT ![t] = "done"]
    /\ UNCHANGED <<cfgVars, mem, ptr, jiffies, call, xfer, hist>>

(* mutex_unlock and the return of at24_read / at24_write. *)
at24_rw_exit(t) ==
    /\ pc[t] = "unlock"
    /\ lock' = 0
    /\ ret' = [ret EXCEPT ![t] = call[t].retval]
    /\ pc' = [pc EXCEPT ![t] = "done"]
    /\ UNCHANGED <<cfgVars, mem, ptr, jiffies, call, xfer, hist>>

(***************************************************************************)
(* Transfer engine: one pass of the retry loop.                            *)
(***************************************************************************)
(* The engine returns status to its caller. *)
EngineReturn(t, status, nak) ==
    /\ xfer' = [xfer EXCEPT ![t].status = status, ![t].time = jiffies, ![t].tries = @ + 1,
                            ![t].nak = nak]
    /\ pc' = [pc EXCEPT ![t] = "xret"]
    /\ hist' = [hist EXCEPT ![t].nok = @ + 1, ![t].bus = TRUE,
                            ![t].nak = @ \/ nak]

(* A pass that failed: on to msleep(1). *)
EngineRetry(t, status) ==
    /\ xfer' = [xfer EXCEPT ![t].status = status, ![t].time = jiffies, ![t].tries = @ + 1]
    /\ pc' = [pc EXCEPT ![t] = "sleep"]
    /\ hist' = [hist EXCEPT ![t].bus = TRUE, ![t].nak = TRUE]

(* at24_eeprom_read, one pass: set the address, read the current byte. *)
ReadAttempt(t) ==
    /\ pc[t] = "attempt"
    /\ call[t].kind = "read"
    /\ xfer[t].client < at24.num_addresses
    /\ \E okSet \in BusOutcomes, okRead \in BusOutcomes :
         LET c    == xfer[t].client
             addr == CommandByte(xfer[t].offset) * 256 + (xfer[t].offset % 256)
             p1   == IF okSet THEN addr ELSE ptr[c]
         IN  IF okRead
             THEN /\ ptr' = [ptr EXCEPT ![c] = p1]
                  /\ call' = [call EXCEPT ![t].buf[call[t].pos + 1] = Peek(c, p1)]
                  /\ EngineReturn(t, xfer[t].count, ~okSet)
             ELSE /\ ptr' = [ptr EXCEPT ![c] = p1]
                  /\ call' = call
                  /\ EngineRetry(t, -ENXIO)
    /\ UNCHANGED <<cfgVars, lock, mem, jiffies, ret>>

(* at24_eeprom_write, one pass: one SMBus word write. *)
WriteAttempt(t) ==
    /\ pc[t] = "attempt"
    /\ call[t].kind = "write"
    /\ xfer[t].client < at24.num_addresses
    /\ \E ok \in BusOutcomes :
         LET c    == xfer[t].client
             word == WriteWord(xfer[t].offset, call[t].buf[call[t].pos + 1])
             addr == CommandByte(xfer[t].offset) * 256 + (word % 256)
         IN  IF ok
             THEN /\ mem' = Poke(c, addr, word \div 256)
                  /\ ptr' = [ptr EXCEPT ![c] = addr]
                  /\ EngineReturn(t, xfer[t].count, FALSE)
             ELSE /\ mem' = mem
                  /\ ptr' = ptr
                  /\ EngineRetry(t, -ENXIO)
    /\ UNCHANGED <<cfgVars, lock, jiffies, call, ret>>

(* msleep(1) and the loop condition: go round again, or give up. *)
Sleep(t) ==
    /\ pc[t] = "sleep"
    /\ \E d \in 1..MaxSleep : jiffies' = jiffies + d
    /\ IF RetryAgain(xfer[t].time, xfer[t].timeout)
       THEN /\ pc' = [pc EXCEPT ![t] = "attempt"]
            /\ xfer' = xfer
            /\ hist' = hist
       ELSE /\ pc' = [pc EXCEPT ![t] = "xret"]
            /\ xfer' = [xfer EXCEPT ![t].status = -ETIMEDOUT]
            /\ hist' = [hist EXCEPT ![t].failed = TRUE]
    /\ UNCHANGED <<cfgVars, lock, mem, ptr, call, ret>>

(* A bus call through at24->client[i] with i beyond the array: the pointer *)
(* read there is whatever follows the allocation, so the call may fault,   *)
(* fail, or reach some device and succeed.                                 *)
WildAttempt(t) ==
    /\ pc[t] = "attempt"
    /\ xfer[t].client >= at24.num_addresses
    /\ \/ /\ pc' = [pc EXCEPT ![t] = "oops"]
          /\ UNCHANGED <<call, xfer, hist>>
       \/ /\ EngineRetry(t, -ENXIO)
          /\ call' = call
       \/ /\ EngineReturn(t, xfer[t].count, FALSE)
          /\ \E b \in {0, 255} :
                call' = IF call[t].kind = "read"
                        THEN [call EXCEPT ![t].buf[call[t].pos + 1] = b]
                        ELSE call
    /\ UNCHANGED <<cfgVars, lock, mem, ptr, jiffies, ret>>

(***************************************************************************)
(* The driver in use: one probed instance, callers reading and writing.    *)
(***************************************************************************)
(* The address the primary client answers at. *)
PrimaryAddr == 80

NoOf == [node |-> FALSE, read_only |-> FALSE, has_pagesize |-> FALSE, pagesize |-> 0]

(* The geometry at24_probe derives for a table entry. *)
TableChip(name) == at24_get_ofdata(DecodeMagic(IdOf(name).driver_data), NoOf)

FullI2C == {"I2C"}

RunConfigs ==
    { [chip |-> TableChip("24c02-delta"), func |-> FullI2C, limit |-> 128],
      [chip |-> [byte_len |-> 32, page_size |-> 4, flags |-> AT24_FLAG_ADDR16],
       func |-> FullI2C, limit |-> 2] }

(* The offsets the callers try: the ends of the range and of an alias. *)
ReqOffsets ==
    {0, at24.bin.size - 1, at24.bin.size}
        \cup (IF at24.num_addresses = 2 THEN {255, 256} ELSE {})

DataOf(bytes, maxlen) == UNION { [1..n -> bytes] : n \in 0..maxlen }

InitRun(cfgs, timings, flakies, signs) ==
    /\ \E c \in cfgs :
          /\ io_limit = c.limit
          /\ at24 = Instance(c.chip, c.func, c.limit)
    /\ \E tm \in timings :
          /\ write_timeout = tm[1]
          /\ HZ = tm[2]
    /\ charSigned \in signs
    /\ flaky \in flakies
    /\ lock = 0
    /\ mem = << >>
    /\ ptr = [c \in 0..7 |-> 0]
    /\ jiffies = 0
    /\ pc = [t \in Threads |-> "idle"]
    /\ call = [t \in Threads |-> NoCall]
    /\ xfer = [t \in Threads |-> NoXfer]
    /\ ret = [t \in Threads |-> 0]
    /\ hist = [t \in Threads |-> NoHist]
    /\ wrote = NoWrite
    /\ probe = [NoProbe EXCEPT !.pc = "bound", !.addr = PrimaryAddr,
                               !.num = at24.num_addresses,
                               !.client = [k \in 0..(at24.num_addresses - 1) |-> PrimaryAddr + k],
                               !.inst = at24]
    /\ i2c = [NoI2c EXCEPT !.dummies = {PrimaryAddr + k : k \in 1..(at24.num_addresses - 1)},
                           !.registered = {PrimaryAddr + k : k \in 1..(at24.num_addresses - 1)},
                           !.file = TRUE]

(* The steps of a call once it is past the callback's entry, while its    *)
(* transfers address the aliases the instance has.                         *)
ProceedInRange(t) ==
    \/ mutex_lock(t) /\ UNCHANGED wrote
    \/ LoopHead(t) /\ UNCHANGED wrote
    \/ LoopStep(t) /\ UNCHANGED wrote
    \/ at24_rw_exit(t) /\ UNCHANGED wrote
    \/ ReadAttempt(t) /\ UNCHANGED wrote
    \/ WriteAttempt(t) /\ UNCHANGED wrote
    \/ Sleep(t) /\ UNCHANGED wrote

(* All the steps of a call once it is past the callback's entry. *)
Proceed(t) ==
    \/ ProceedInRange(t)
    \/ WildAttempt(t) /\ UNCHANGED wrote

Init == InitRun(RunConfigs, {<<4, 250>>}, {TRUE}, {TRUE})

Next ==
    \/ \E off \in ReqOffsets, n \in 0..MaxLen :
          at24_bin_read(1, off, n) /\ UNCHANGED wrote
    \/ \E off \in ReqOffsets, data \in DataOf({1}, MaxLen) :
          at24_bin_write(1, off, data) /\ UNCHANGED wrote
    \/ Proceed(1)

Spec == Init /\ [][Next]_vars

(***************************************************************************)
(* Properties of the range accessor and the callbacks.                     *)
(***************************************************************************)
Returned(t) == pc[t] = "done"

(* C2: a call that entered the loop with length L >= 1 returns L when all *)
(* its transfers succeeded; when transfer k+1 failed after k successes it  *)
(* returns k if k >= 1 and -ETIMEDOUT only if k = 0; the value is never an *)
(* error after a byte has moved and never exceeds L.                       *)
C2_PartialProgress ==
    \A t \in Threads :
        (Returned(t) /\ hist[t].locked) =>
            LET L == call[t].len
                k == hist[t].nok
            IN  /\ L >= 1
                /\ hist[t].failed => ret[t] = (IF k >= 1 THEN k ELSE -ETIMEDOUT)
                /\ ~hist[t].failed => (k = L /\ ret[t] = L)
                /\ ret[t] <= L
                /\ k >= 1 => ret[t] >= 1

(* C2 witness: a short count, one byte moved and then a Timeout. *)
C2_Witness ==
    \E t \in Threads :
        /\ Returned(t) /\ hist[t].locked /\ hist[t].failed
        /\ hist[t].nok = 1 /\ ret[t] = 1 /\ call[t].len = 2

(* C5: a write starting at or beyond the exposed size has returned -EFBIG  *)
(* without taking the lock and without a bus transaction; a one-byte write *)
(* at the last offset on a device that answered has returned 1.            *)
C5_WriteBoundState ==
    \A t \in Threads :
        (Returned(t) /\ call[t].kind = "write") =>
            /\ call[t].start >= at24.bin.size =>
                  (ret[t] = -EFBIG /\ ~hist[t].locked /\ ~hist[t].bus)
            /\ (call[t].start = at24.bin.size - 1 /\ call[t].len = 1 /\ ~hist[t].nak) =>
                  (ret[t] = 1 /\ hist[t].bus)

(* C5, the step itself: the rejected write changes neither the chips nor   *)
(* the lock.                                                               *)
C5_WriteBoundStep ==
    \A t \in Threads :
        (pc[t] \in {"idle", "done"} /\ pc'[t] = "done" /\ call'[t].kind = "write"
            /\ call'[t].start >= at24.bin.size)
        => (mem' = mem /\ ptr' = ptr /\ lock' = lock /\ ret'[t] = -EFBIG)

C5_WriteBound == []C5_WriteBoundState /\ [][C5_WriteBoundStep]_vars

(* C5 witness: a write at offset byte_len rejected while the chip holds    *)
(* what an earlier write stored.                                           *)
C5_Witness ==
    \E t \in Threads :
        /\ Returned(t) /\ call[t].kind = "write"
        /\ call[t].start = at24.bin.size /\ call[t].len >= 1
        /\ ret[t] = -EFBIG
        /\ mem # << >>

(* C6 as claimed: every zero-length read or write, at any offset, returns  *)
(* 0 without the lock and without a bus transaction.                       *)
C6_ZeroLengthAnyOffset ==
    \A t \in Threads :
        (Returned(t) /\ call[t].kind # "none" /\ call[t].len = 0) =>
            (ret[t] = 0 /\ ~hist[t].locked /\ ~hist[t].bus)

(* C6 amended: a zero-length read at any offset, and a zero-length write   *)
(* at an offset below the exposed size, returns 0 without the lock and     *)
(* without a bus transaction; a zero-length write at or beyond the exposed *)
(* size returns -EFBIG, also without the lock or a bus transaction.        *)
C6_ZeroLength ==
    \A t \in Threads :
        (Returned(t) /\ call[t].kind # "none" /\ call[t].len = 0) =>
            /\ ~hist[t].locked /\ ~hist[t].bus
            /\ ret[t] = (IF call[t].kind = "write" /\ call[t].start >= at24.bin.size
                         THEN -EFBIG ELSE 0)

(* C6 witness: a zero-length write inside the range returned 0 on a chip   *)
(* that holds data.                                                        *)
C6_Witness ==
    \E t \in Threads :
        /\ Returned(t) /\ call[t].kind = "write" /\ call[t].len = 0
        /\ call[t].start < at24.bin.size
        /\ ret[t] = 0 /\ ~hist[t].locked
        /\ mem # << >>

(***************************************************************************)
(* Write then read on a chip that always answers: the caller keeps what it *)
(* wrote and compares it with what the next read returns.                  *)
(***************************************************************************)
(* The callers' record of the call just finished, if it was a write that   *)
(* went through the loop.                                                  *)
Archive(t) ==
    IF pc[t] = "done" /\ call[t].kind = "write" /\ hist[t].locked
    THEN [valid |-> TRUE, off |-> call[t].start, data |-> call[t].buf,
          ret |-> ret[t], nak |-> hist[t].nak]
    ELSE NoWrite

RTConfigs ==
    { [chip |-> [byte_len |-> 32, page_size |-> 4, flags |-> AT24_FLAG_ADDR16],
       func |-> FullI2C, limit |-> 2] }

InitRT == InitRun(RTConfigs, {<<4, 250>>}, {FALSE}, BOOLEAN)

(* Offsets whose requests stay inside the chip. *)
RTOffsets == {0, at24.bin.size - MaxLen}

NextRT ==
    \/ \E off \in RTOffsets, n \in 0..MaxLen :
          at24_bin_read(1, off, n) /\ wrote' = Archive(1)
    \/ \E off \in RTOffsets, data \in DataOf({1, 128}, MaxLen) :
          at24_bin_write(1, off, data) /\ wrote' = Archive(1)
    \/ mutex_lock(1) /\ UNCHANGED wrote
    \/ LoopHead(1) /\ UNCHANGED wrote
    \/ LoopStep(1) /\ UNCHANGED wrote
    \/ at24_rw_exit(1) /\ UNCHANGED wrote
    \/ ReadAttempt(1) /\ UNCHANGED wrote
    \/ WriteAttempt(1) /\ UNCHANGED wrote

SpecRT == InitRT /\ [][NextRT]_vars

(* C1: on a chip that always answers, a write of N bytes at offset O, with *)
(* 1 <= N <= page_size and O+N <= byte_len, followed by a read of N bytes  *)
(* at O: the write returned N, the read returns N and the bytes written.   *)
C1_RoundTrip ==
    \A t \in Threads :
        ( /\ Returned(t) /\ call[t].kind = "read"
          /\ wrote.valid /\ ~wrote.nak /\ ~hist[t].nak
          /\ wrote.off = call[t].start
          /\ Len(wrote.data) = call[t].len
          /\ call[t].len >= 1 /\ call[t].len <= at24.chip.page_size
          /\ call[t].start + call[t].len <= at24.chip.byte_len )
        => ( /\ wrote.ret = call[t].len
             /\ ret[t] = call[t].len
             /\ call[t].buf = wrote.data )

(***************************************************************************)
(* Several host threads on one instance.                                   *)
(***************************************************************************)
MTConfigs == { [chip |-> TableChip("24c02-delta"), func |-> FullI2C, limit |-> 128] }

InitMT == InitRun(MTConfigs, {<<0, 250>>}, {TRUE}, {TRUE})

NextMT ==
    \E t \in Threads :
        \/ \E n \in 0..1 : at24_bin_read(t, at24.bin.size - 1, n) /\ UNCHANGED wrote
        \/ \E data \in DataOf({1}, 1) : at24_bin_write(t, 0, data) /\ UNCHANGED wrote
        \/ ProceedInRange(t)

SpecMT == InitMT /\ [][NextMT]_vars

(* A thread is inside a Transfer Engine sequence: past mutex_lock and not  *)
(* yet past mutex_unlock.                                                  *)
InSequence(t) == pc[t] \in {"loop", "attempt", "sleep", "xret", "unlock", "oops"}

(* C3: at most one thread is inside a Transfer Engine sequence, and it is  *)
(* the holder of the lock; so the bus transactions of two calls, issued    *)
(* only inside a sequence, are never interleaved.                          *)
C3_MutualExclusion ==
    /\ Cardinality({t \in Threads : InSequence(t)}) <= 1
    /\ \A t \in Threads : InSequence(t) => lock = t
    /\ \A t \in Threads : xfer[t].active => InSequence(t)

(* C3 witness: one thread sleeps in the retry loop while another waits in  *)
(* mutex_lock.                                                             *)
C3_Witness ==
    \E t \in Threads, u \in Threads :
        t # u /\ pc[t] = "sleep" /\ pc[u] = "lock" /\ lock = t

(* C4: a thread whose call has returned does not hold the lock, and the    *)
(* lock is held only by a thread inside a call, on its way to the unlock.  *)
C4_LockReleased ==
    /\ \A t \in Threads : pc[t] \in {"idle", "done"} => lock # t
    /\ lock # 0 => InSequence(lock)

(* C4 witness: after one thread's call returned -ETIMEDOUT another thread  *)
(* holds the lock and is transferring.                                     *)
C4_Witness ==
    \E t \in Threads, u \in Threads :
        /\ t # u
        /\ Returned(t) /\ ret[t] = -ETIMEDOUT /\ hist[t].locked
        /\ lock = u /\ pc[u] = "attempt"

(***************************************************************************)
(* The transfer engine called on its own, with any count.                  *)
(***************************************************************************)
EngineCall(t, kind, off, count) ==
    /\ CanStart(t)
    /\ call' = [call EXCEPT ![t] =
                  [kind |-> kind, buf |-> [i \in 1..count |-> IF kind = "read" THEN 0 ELSE 1],
                   pos |-> 0, off |-> off, count |-> count, retval |-> 0,
                   len |-> count, start |-> off]]
    /\ xfer' = [xfer EXCEPT ![t] = EngineEnter(kind, off, count, "direct")]
    /\ pc' = [pc EXCEPT ![t] = "attempt"]
    /\ hist' = [hist EXCEPT ![t] = NoHist]
    /\ UNCHANGED <<cfgVars, lock, mem, ptr, jiffies, ret, wrote>>

(* The engine's value reaches the caller. *)
EngineDone(t) ==
    /\ pc[t] = "xret"
    /\ xfer[t].from = "direct"
    /\ ret' = [ret EXCEPT ![t] = xfer[t].status]
    /\ pc' = [pc EXCEPT ![t] = "done"]
    /\ xfer' = [xfer EXCEPT ![t] = NoXfer]
    /\ hist' = [hist EXCEPT ![t] = NoHist]
    /\ UNCHANGED <<cfgVars, lock, mem, ptr, jiffies, call, wrote>>

EngineConfigs ==
    { [chip |-> TableChip("24c02-delta"), func |-> FullI2C, limit |-> 128],
      [chip |-> [byte_len |-> 32, page_size |-> 4, flags |-> AT24_FLAG_ADDR16],
       func |-> FullI2C, limit |-> 2],
      [chip |-> [byte_len |-> 32, page_size |-> 3, flags |-> 0],
       func |-> FullI2C, limit |-> 128] }

EngineTimings == {<<0, 250>>, <<25, 100>>}

(* Offsets at the start, inside and at the end of the first two pages. *)
EngineOffsets ==
    LET p == at24.chip.page_size IN {0, 1, p - 1, p, 2 * p - 1}

InitEngine == InitRun(EngineConfigs, EngineTimings, {TRUE}, {TRUE})

NextEngine ==
    \/ \E off \in EngineOffsets, n \in 1..MaxCount : EngineCall(1, "write", off, n)
    \/ EngineCall(1, "read", 0, 1)
    \/ ReadAttempt(1) /\ UNCHANGED wrote
    \/ WriteAttempt(1) /\ UNCHANGED wrote
    \/ Sleep(1) /\ UNCHANGED wrote
    \/ EngineDone(1)

SpecEngine == InitEngine /\ [][NextEngine]_vars

(* C7: the engine returns -ETIMEDOUT only once the clock has reached its   *)
(* entry time plus write_timeout; a call during which the bus never        *)
(* answered returns -ETIMEDOUT; and every pass of the retry loop starts    *)
(* before the deadline, or within one sleep of it.                         *)
C7_Timeout ==
    \A t \in Threads :
        /\ (pc[t] = "xret" /\ xfer[t].status = -ETIMEDOUT) =>
              /\ (jiffies - xfer[t].entered) * 1000 >= write_timeout * HZ
              /\ xfer[t].tries >= 1
        /\ (pc[t] = "xret" /\ xfer[t].from = "direct" /\ hist[t].nok = 0) =>
              xfer[t].status = -ETIMEDOUT
        /\ (xfer[t].active /\ xfer[t].tries >= 1) =>
              xfer[t].time < xfer[t].entered + msecs_to_jiffies(write_timeout) + MaxSleep

(* C7 witness: a Timeout after the loop went round more than once. *)
C7_Witness ==
    \E t \in Threads :
        /\ pc[t] = "xret" /\ xfer[t].status = -ETIMEDOUT
        /\ xfer[t].tries >= 2 /\ write_timeout > 0
        /\ xfer[t].time >= xfer[t].timeout

(* C9: a successful at24_eeprom_write returns min(count, write_max,        *)
(* next_page - offset), next_page being the first multiple of page_size    *)
(* above offset: it never covers bytes of two pages, and a request that    *)
(* reaches past next_page ends exactly there.                              *)
C9_PageBoundary ==
    \A t \in Threads :
        (pc[t] = "xret" /\ call[t].kind = "write" /\ xfer[t].status > 0) =>
            LET o  == xfer[t].offset
                p  == at24.chip.page_size
                np == ((o \div p) + 1) * p
                rq == Min(call[t].count, at24.write_max)
            IN  /\ xfer[t].status = Min(rq, np - o)
                /\ xfer[t].status >= 1
                /\ o + xfer[t].status <= np
                /\ o + rq > np => xfer[t].status = np - o

(* C9 witness: a request cut short at the page boundary, below both its    *)
(* count and write_max.                                                    *)
C9_Witness ==
    \E t \in Threads :
        /\ pc[t] = "xret" /\ call[t].kind = "write" /\ xfer[t].status > 0
        /\ xfer[t].status < call[t].count
        /\ xfer[t].status < at24.write_max
        /\ (xfer[t].offset + xfer[t].status) % at24.chip.page_size = 0

(***************************************************************************)
(* The translator over the device table.                                   *)
(***************************************************************************)
TableConfigs ==
    { [chip |-> TableChip(delta_at24_ids[k].name), func |-> FullI2C, limit |-> 128] :
        k \in { j \in DOMAIN delta_at24_ids : delta_at24_ids[j].driver_data # 0 } }

XlateOffsets ==
    { o \in {0, 1, 255, 256, 257, 65535, 65536, 65537,
             at24.chip.byte_len \div 2, at24.chip.byte_len - 1} : o < at24.chip.byte_len }

InitXlate == InitRun(TableConfigs, {<<25, 250>>}, {FALSE}, {TRUE})

NextXlate ==
    \/ \E off \in XlateOffsets : EngineCall(1, "read", off, 1)
    \/ ReadAttempt(1) /\ UNCHANGED wrote
    \/ EngineDone(1)

SpecXlate == InitXlate /\ [][NextXlate]_vars

(* C8: for an offset below byte_len the translator yields the alias index  *)
(* offset >> 16 and the in-chip offset offset & 0xFFFF with ADDR16, else   *)
(* offset >> 8 and offset & 0xFF; the index is below num_addresses, the    *)
(* in-chip offset below the span, and index * span + in-chip = offset.     *)
C8_Translate ==
    \A t \in Threads :
        (xfer[t].active /\ call[t].off < at24.chip.byte_len) =>
            LET span == IF HasFlag(at24.chip, AT24_FLAG_ADDR16) THEN 65536 ELSE 256
            IN  /\ xfer[t].client = call[t].off \div span
                /\ xfer[t].offset = BitAnd(call[t].off, span - 1)
                /\ xfer[t].client < at24.num_addresses
                /\ xfer[t].offset < span
                /\ xfer[t].client * span + xfer[t].offset = call[t].off

(* C8 witness: an offset of a 16-bit-addressed chip translated to its      *)
(* second alias.                                                           *)
C8_Witness ==
    \E t \in Threads :
        /\ xfer[t].active /\ HasFlag(at24.chip, AT24_FLAG_ADDR16)
        /\ xfer[t].client = 1 /\ xfer[t].offset = 1
        /\ call[t].off = 65537

(***************************************************************************)
(* Construction and teardown.                                              *)
(***************************************************************************)
NoInstance == [chip |-> [byte_len |-> 0, page_size |-> 0, flags |-> 0],
               use_smbus |-> 0, write_max |-> 0, num_addresses |-> 0,
               bin |-> [size |-> 0, mode |-> 0, read |-> FALSE, write |-> FALSE]]

(* at24_probe returns err; the device-managed at24_data is released. *)
ProbeFail(err) ==
    /\ probe' = [NoProbe EXCEPT !.pc = "failed", !.err = err, !.arg = probe.arg]
    /\ UNCHANGED i2c

(* at24_probe from its entry to the head of the alias loop: the geometry   *)
(* from platform data or from the table and the device node, the checks,   *)
(* the two allocations, client[0].  pdata is << >> when there is no        *)
(* platform data; kz1 and kz2 tell whether each devm_kzalloc succeeds.     *)
ProbeEnter(pdata, id, of, func, kz1, kz2) ==
    /\ probe.pc \in {"unbound", "failed"}
    /\ i2c' = [i2c EXCEPT !.registered = {}, !.unregistered = << >>]
    /\ LET arg == [pdata |-> pdata, id |-> id, of |-> of, func |-> func]
       IN
       IF pdata = << >> /\ id.driver_data = 0
       THEN probe' = [NoProbe EXCEPT !.pc = "failed", !.err = -ENODEV, !.arg = arg]
       ELSE LET chip  == IF pdata # << >> THEN pdata
                         ELSE at24_get_ofdata(DecodeMagic(id.driver_data), of)
                smbus == UseSmbus(func)
                inst  == Instance(chip, func, io_limit)
            IN  IF chip.page_size = 0
                THEN probe' = [NoProbe EXCEPT !.pc = "failed", !.err = -EINVAL, !.arg = arg]
                ELSE IF smbus = -1
                THEN probe' = [NoProbe EXCEPT !.pc = "failed", !.err = -EPFNOSUPPORT,
                                              !.arg = arg]
                ELSE IF ~kz1 \/ (inst.bin.write /\ ~kz2)
                THEN probe' = [NoProbe EXCEPT !.pc = "failed", !.err = -ENOMEM, !.arg = arg]
                ELSE \* client[0] = client lands outside an array of no entries:
                     \* the kernel's heap is damaged, and probe goes on or the
                     \* kernel stops.
                     \E stop \in (IF inst.num_addresses = 0 THEN BOOLEAN ELSE {FALSE}) :
                        probe' = [pc |-> IF stop THEN "oops" ELSE "alias",
                                  addr |-> PrimaryAddr,
                                  num |-> inst.num_addresses, i |-> 1,
                                  client |-> [k \in 0..(inst.num_addresses - 1) |->
                                                IF k = 0 THEN PrimaryAddr ELSE 0],
                                  inst |-> inst, err |-> 0, arg |-> arg]
    /\ UNCHANGED <<io_limit, write_timeout, HZ, charSigned, at24, flaky, lock, mem,
                   ptr, jiffies, pc, call, xfer, ret, hist, wrote>>

(* One pass of the alias loop: i2c_new_dummy at addr + i gives a device,   *)
(* or NULL when the address is taken or the device cannot be made.         *)
ProbeAlias ==
    /\ probe.pc = "alias"
    /\ probe.i < probe.num
    /\ LET a == probe.addr + probe.i
       IN  \E made \in (IF a \in i2c.busy THEN {FALSE} ELSE BOOLEAN) :
              IF made
              THEN /\ probe' = [probe EXCEPT !.client[probe.i] = a, !.i = @ + 1]
                   /\ i2c' = [i2c EXCEPT !.dummies = @ \cup {a},
                                         !.registered = @ \cup {a}]
              ELSE /\ probe' = [probe EXCEPT !.err = -EADDRINUSE, !.pc = "err_clients",
                                             !.i = 1]
                   /\ UNCHANGED i2c
    /\ UNCHANGED <<io_limit, write_timeout, HZ, charSigned, at24, flaky, lock, mem,
                   ptr, jiffies, pc, call, xfer, ret, hist, wrote>>

(* After the loop: sysfs_create_bin_file, then i2c_set_clientdata and      *)
(* return 0, or err_clients with the file's error.                         *)
ProbeFile ==
    /\ probe.pc = "alias"
    /\ probe.i >= probe.num
    /\ \E created \in BOOLEAN :
          IF created
          THEN /\ probe' = [probe EXCEPT !.pc = "bound"]
               /\ i2c' = [i2c EXCEPT !.file = TRUE]
               /\ at24' = probe.inst
          ELSE /\ probe' = [probe EXCEPT !.err = -ENOMEM, !.pc = "err_clients", !.i = 1]
               /\ UNCHANGED <<i2c, at24>>
    /\ UNCHANGED <<io_limit, write_timeout, HZ, charSigned, flaky, lock, mem,
                   ptr, jiffies, pc, call, xfer, ret, hist, wrote>>

(* err_clients with every entry of the client array taken for NULL. *)
UnwindNeeded_never(c) == FALSE

(* The test of the err_clients loop: the entry is not NULL. *)
UnwindNeeded(c) == c # 0

(* One pass of the err_clients loop, or its end and the return of err. *)
ProbeUnwind ==
    /\ probe.pc = "err_clients"
    /\ IF probe.i < probe.num
       THEN LET c == probe.client[probe.i]
            IN  /\ probe' = [probe EXCEPT !.i = @ + 1]
                /\ IF UnwindNeeded(c)
                   THEN i2c' = [i2c EXCEPT !.dummies = @ \ {c},
                                           !.unregistered = Append(@, c)]
                   ELSE UNCHANGED i2c
       ELSE ProbeFail(probe.err)
    /\ UNCHANGED <<io_limit, write_timeout, HZ, charSigned, at24, flaky, lock, mem,
                   ptr, jiffies, pc, call, xfer, ret, hist, wrote>>

(* at24_remove up to its loop: sysfs_remove_bin_file, i = 1. *)
at24_remove ==
    /\ probe.pc = "bound"
    /\ \A t \in Threads : pc[t] \in {"idle", "done"}
    /\ probe' = [probe EXCEPT !.pc = "removing", !.i = 1]
    /\ i2c' = [i2c EXCEPT !.file = FALSE, !.unregistered = << >>]
    /\ UNCHANGED at24
    /\ UNCHANGED <<io_limit, write_timeout, HZ, charSigned, flaky, lock, mem,
                   ptr, jiffies, pc, call, xfer, ret, hist, wrote>>

(* A loop of at24_remove that stops one alias early. *)
RemoveMore_short(i, num) == i + 1 < num

(* The condition of at24_remove's loop. *)
RemoveMore(i, num) == i < num

(* One pass of at24_remove's loop, or its end and return 0; the            *)
(* device-managed at24_data goes with the binding.                         *)
RemoveAlias ==
    /\ probe.pc = "removing"
    /\ IF RemoveMore(probe.i, probe.num)
       THEN /\ probe' = [probe EXCEPT !.i = @ + 1]
            /\ i2c' = [i2c EXCEPT !.dummies = @ \ {probe.client[probe.i]},
                                  !.unregistered = Append(@, probe.client[probe.i])]
            /\ UNCHANGED at24
       ELSE /\ probe' = [NoProbe EXCEPT !.pc = "unbound"]
            /\ UNCHANGED i2c
            /\ at24' = NoInstance
    /\ UNCHANGED <<io_limit, write_timeout, HZ, charSigned, flaky, lock, mem,
                   ptr, jiffies, pc, call, xfer, ret, hist, wrote>>

ProbeChips ==
    { [byte_len |-> 1024, page_size |-> 0, flags |-> 0],
      [byte_len |-> 1024, page_size |-> 4, flags |-> 0],
      [byte_len |-> 32, page_size |-> 4, flags |-> AT24_FLAG_TAKE8ADDR + AT24_FLAG_READONLY] }

ProbeIds == { IdOf(n) : n \in {"24c02-delta", "24c08-delta", "at24-delta"} }

ProbeOfs == { NoOf,
              [node |-> TRUE, read_only |-> TRUE, has_pagesize |-> FALSE, pagesize |-> 0],
              [node |-> TRUE, read_only |-> TRUE, has_pagesize |-> TRUE, pagesize |-> 0],
              [node |-> TRUE, read_only |-> FALSE, has_pagesize |-> TRUE, pagesize |-> 8] }

ProbeFuncs == { FullI2C, {"SMBUS_READ_BYTE_DATA"}, {"SMBUS_READ_WORD_DATA", "SMBUS_WRITE_I2C_BLOCK"}, {} }

InitProbe ==
    /\ io_limit \in {2, 128}
    /\ write_timeout = 25
    /\ HZ = 250
    /\ charSigned = TRUE
    /\ flaky = FALSE
    /\ at24 = NoInstance
    /\ lock = 0
    /\ mem = << >>
    /\ ptr = [c \in 0..7 |-> 0]
    /\ jiffies = 0
    /\ pc = [t \in Threads |-> "idle"]
    /\ call = [t \in Threads |-> NoCall]
    /\ xfer = [t \in Threads |-> NoXfer]
    /\ ret = [t \in Threads |-> 0]
    /\ hist = [t \in Threads |-> NoHist]
    /\ wrote = NoWrite
    /\ probe = NoProbe
    /\ \E b \in {{}, {PrimaryAddr + 1}, {PrimaryAddr + 3}} : i2c = [NoI2c EXCEPT !.busy = b]

NextProbe ==
    \/ \E pdata \in ProbeChips, func \in ProbeFuncs, kz1 \in BOOLEAN, kz2 \in BOOLEAN :
          ProbeEnter(pdata, IdOf("at24-delta"), NoOf, func, kz1, kz2)
    \/ \E id \in ProbeIds, of \in ProbeOfs, func \in ProbeFuncs :
          ProbeEnter(<< >>, id, of, func, TRUE, TRUE)
    \/ ProbeAlias
    \/ ProbeFile
    \/ ProbeUnwind
    \/ at24_remove
    \/ RemoveAlias

SpecProbe == InitProbe /\ [][NextProbe]_vars

(* C10: once at24_probe has returned an error, no dummy device of the      *)
(* driver is alive and no file is exposed, and what the probe unregistered *)
(* is exactly what it registered, each device once.                        *)
C10_NoLeak ==
    probe.pc = "failed" =>
        /\ probe.err < 0
        /\ i2c.dummies = {}
        /\ ~i2c.file
        /\ {i2c.unregistered[k] : k \in DOMAIN i2c.unregistered} = i2c.registered
        /\ Len(i2c.unregistered) = Cardinality(i2c.registered)

(* C10 witness: a probe that failed on its third alias and gave back the   *)
(* two it had registered.                                                  *)
C10_Witness ==
    /\ probe.pc = "failed"
    /\ probe.err = -EADDRINUSE
    /\ Cardinality(i2c.registered) = 2
    /\ Len(i2c.unregistered) = 2

GeomChips ==
    { [byte_len |-> 0, page_size |-> 1, flags |-> 0],
      [byte_len |-> 300, page_size |-> 3, flags |-> 0],
      [byte_len |-> 65537, page_size |-> 64, flags |-> AT24_FLAG_ADDR16],
      [byte_len |-> 16, page_size |-> 8, flags |-> AT24_FLAG_TAKE8ADDR + AT24_FLAG_READONLY],
      [byte_len |-> 256, page_size |-> 0, flags |-> 0] }

GeomIds == { delta_at24_ids[k] : k \in DOMAIN delta_at24_ids }

InitGeom ==
    /\ io_limit \in {1, 2, 64, 128}
    /\ write_timeout = 25
    /\ HZ = 250
    /\ charSigned = TRUE
    /\ flaky = FALSE
    /\ at24 = NoInstance
    /\ lock = 0
    /\ mem = << >>
    /\ ptr = [c \in 0..7 |-> 0]
    /\ jiffies = 0
    /\ pc = [t \in Threads |-> "idle"]
    /\ call = [t \in Threads |-> NoCall]
    /\ xfer = [t \in Threads |-> NoXfer]
    /\ ret = [t \in Threads |-> 0]
    /\ hist = [t \in Threads |-> NoHist]
    /\ wrote = NoWrite
    /\ probe = NoProbe
    /\ i2c = NoI2c

(* Each device is probed once, and again after a removal. *)
NextGeom ==
    \/ /\ probe.pc = "unbound"
       /\ \E pdata \in GeomChips, func \in ProbeFuncs :
             ProbeEnter(pdata, IdOf("at24-delta"), NoOf, func, TRUE, TRUE)
    \/ /\ probe.pc = "unbound"
       /\ \E id \in GeomIds, of \in ProbeOfs, func \in ProbeFuncs :
             ProbeEnter(<< >>, id, of, func, TRUE, TRUE)
    \/ ProbeAlias
    \/ ProbeFile
    \/ ProbeUnwind
    \/ at24_remove
    \/ RemoveAlias

SpecGeom == InitGeom /\ [][NextGeom]_vars

(* at24_probe is past its allocations and has not failed. *)
Constructed == probe.pc \in {"alias", "err_clients", "bound", "removing"}

(* C12: every at24_data that at24_probe constructs has num_addresses >= 1, *)
(* namely 8 with TAKE8ADDR and else byte_len / span rounded up, span being *)
(* 65536 with ADDR16 and else 256; its client array has num_addresses      *)
(* entries, the primary at index 0.                                        *)
C12_NumAddresses ==
    Constructed =>
        LET chip == probe.inst.chip
            span == IF HasFlag(chip, AT24_FLAG_ADDR16) THEN 65536 ELSE 256
        IN  /\ probe.num = (IF HasFlag(chip, AT24_FLAG_TAKE8ADDR) THEN 8
                            ELSE (chip.byte_len + span - 1) \div span)
            /\ probe.num >= 1
            /\ DOMAIN probe.client = 0..(probe.num - 1)
            /\ probe.client[0] = probe.addr

(***************************************************************************)
(* Module initialisation, then probes, requests and removals.              *)
(***************************************************************************)
(* io_limit left as it was configured. *)
rounddown_pow_of_two_same(n) == n

(* rounddown_pow_of_two: the highest set bit of n, n >= 1. *)
rounddown_pow_of_two(n) == BIT(ilog2(n))

(* delta_at24_init; added tells whether i2c_add_driver succeeds. *)
delta_at24_init(added) ==
    /\ i2c.driver = "none"
    /\ IF io_limit = 0
       THEN /\ i2c' = [i2c EXCEPT !.driver = "rejected", !.initret = -EINVAL]
            /\ UNCHANGED io_limit
       ELSE /\ io_limit' = rounddown_pow_of_two(io_limit)
            /\ i2c' = IF added THEN [i2c EXCEPT !.driver = "registered", !.initret = 0]
                      ELSE [i2c EXCEPT !.driver = "rejected", !.initret = -ENOMEM]
    /\ UNCHANGED <<write_timeout, HZ, charSigned, at24, flaky, lock, mem, ptr,
                   jiffies, pc, call, xfer, ret, hist, wrote, probe>>

LoadChips == { [byte_len |-> 512, page_size |-> 4, flags |-> 0] }

InitLoad ==
    /\ io_limit \in {0, 1, 3, 64, 100, 128}
    /\ write_timeout \in {0, 25}
    /\ HZ = 250
    /\ charSigned = TRUE
    /\ flaky = FALSE
    /\ at24 = NoInstance
    /\ lock = 0
    /\ mem = << >>
    /\ ptr = [c \in 0..7 |-> 0]
    /\ jiffies = 0
    /\ pc = [t \in Threads |-> "idle"]
    /\ call = [t \in Threads |-> NoCall]
    /\ xfer = [t \in Threads |-> NoXfer]
    /\ ret = [t \in Threads |-> 0]
    /\ hist = [t \in Threads |-> NoHist]
    /\ wrote = NoWrite
    /\ probe = NoProbe
    /\ i2c = [NoI2c EXCEPT !.driver = "none", !.configured = io_limit]

NextLoad ==
    \/ \E added \in BOOLEAN : delta_at24_init(added)
    \/ /\ i2c.driver = "registered"
       /\ \E pdata \in LoadChips : ProbeEnter(pdata, IdOf("at24-delta"), NoOf, FullI2C, TRUE, TRUE)
    \/ ProbeAlias
    \/ ProbeFile
    \/ ProbeUnwind
    \/ at24_remove
    \/ RemoveAlias
    \/ probe.pc = "bound" /\ at24_bin_read(1, 0, 1) /\ UNCHANGED wrote
    \/ probe.pc = "bound" /\ at24_bin_write(1, 0, <<1>>) /\ UNCHANGED wrote
    \/ mutex_lock(1) /\ UNCHANGED wrote
    \/ LoopHead(1) /\ UNCHANGED wrote
    \/ LoopStep(1) /\ UNCHANGED wrote
    \/ at24_rw_exit(1) /\ UNCHANGED wrote
    \/ ReadAttempt(1) /\ UNCHANGED wrote
    \/ WriteAttempt(1) /\ UNCHANGED wrote

SpecLoad == InitLoad /\ [][NextLoad]_vars

(* Whether n is a power of two. *)
IsPowerOfTwo(n) == \E e \in 0..16 : n = 2^e

C13_State ==
    /\ i2c.configured = 0 => i2c.driver \in {"none", "rejected"}
    /\ (i2c.driver = "rejected" /\ i2c.configured = 0) =>
          (i2c.initret = -EINVAL /\ io_limit = 0)
    /\ (i2c.driver = "registered") =>
          /\ IsPowerOfTwo(io_limit)
          /\ io_limit <= i2c.configured
          /\ 2 * io_limit > i2c.configured
    /\ i2c.driver # "registered" => probe.pc = "unbound"

C13_Step ==
    i2c.driver # "none" => (io_limit' = io_limit /\ write_timeout' = write_timeout)

(* C13: delta_at24_init rejects io_limit = 0 with -EINVAL and registers no *)
(* driver; otherwise io_limit becomes the largest power of two not above   *)
(* the configured value; once initialisation is over no probe, read, write *)
(* or remove changes io_limit or write_timeout.                            *)
C13_IoLimit == []C13_State /\ [][C13_Step]_vars

(* C13 witness: loaded with io_limit = 100, the driver runs with 64 and    *)
(* has served a request on a bound device.                                 *)
C13_Witness ==
    /\ i2c.driver = "registered" /\ i2c.configured = 100 /\ io_limit = 64
    /\ probe.pc = "bound" /\ pc[1] = "done" /\ call[1].kind = "write"

(* at24_probe was called without platform data. *)
FromTable == probe.arg # << >> /\ probe.arg.pdata = << >>

(* What C14 says of every field but flags, and of the zero magic. *)
C14_Rest ==
    /\ (FromTable /\ Constructed) =>
          LET magic == probe.arg.id.driver_data
              of    == probe.arg.of
              chip  == probe.inst.chip
          IN  /\ magic # 0
              /\ chip.byte_len = 2^(magic % 32)
              /\ chip.page_size = (IF of.node /\ of.has_pagesize THEN of.pagesize ELSE 1)
              /\ probe.arg.id.name = "24c02-delta" =>
                    (chip.byte_len = 256 /\ probe.num = 1)
              /\ probe.arg.id.name = "24c00-delta" =>
                    (chip.byte_len = 16 /\ probe.num = 8)
    /\ (FromTable /\ probe.arg.id.driver_data = 0) =>
          (probe.pc = "failed" /\ probe.err = -ENODEV)

(* C14 as stated: a probe from a nonzero table magic gets byte_len =       *)
(* 2^(magic & 0x1F), flags = (magic >> 5) & 0xFF, and page_size 1 unless   *)
(* the device node gives one; a zero magic without platform data fails     *)
(* with -ENODEV; the 256-byte magic gives one address, the 16-byte         *)
(* TAKE8ADDR magic eight.                                                  *)
C14_DecodeFlagsExact ==
    /\ C14_Rest
    /\ (FromTable /\ Constructed) =>
          probe.inst.chip.flags = (probe.arg.id.driver_data \div 32) % 256

(* C14 amended: as above, but flags is (magic >> 5) & 0xFF with READONLY   *)
(* set in addition when the device node has the read-only property.        *)
C14_Decode ==
    /\ C14_Rest
    /\ (FromTable /\ Constructed) =>
          LET decoded == (probe.arg.id.driver_data \div 32) % 256
              ro      == (decoded \div AT24_FLAG_READONLY) % 2 = 1
          IN  probe.inst.chip.flags =
                  IF probe.arg.of.node /\ probe.arg.of.read_only /\ ~ro
                  THEN decoded + AT24_FLAG_READONLY ELSE decoded

(* C14 witness: the 16-byte TAKE8ADDR entry probed with a device node that *)
(* gives page size 8.                                                      *)
C14_Witness ==
    /\ FromTable /\ probe.pc = "bound"
    /\ probe.arg.id.name = "24c00-delta"
    /\ probe.arg.of.has_pagesize
    /\ probe.inst.chip.page_size = 8 /\ probe.num = 8
    /\ probe.inst.chip.flags = AT24_FLAG_TAKE8ADDR

(* C15: at24_eeprom_read returns a byte only from a pass in which both the *)
(* set-address write and the read of the current byte succeeded.           *)
C15_BothSucceed ==
    \A t \in Threads :
        (pc[t] = "xret" /\ call[t].kind = "read" /\ xfer[t].status > 0) => ~xfer[t].nak

(* C16: every call of the engine made by the loop of at24_read or          *)
(* at24_write is at a logical offset below byte_len, and the client index  *)
(* it uses is below num_addresses.                                         *)
C16_Precondition ==
    \A t \in Threads :
        (xfer[t].active /\ xfer[t].from = "rw") =>
            /\ call[t].off < at24.chip.byte_len
            /\ xfer[t].client < at24.num_addresses

InitFair == InitRun(MTConfigs, {<<0, 250>>, <<4, 250>>}, {TRUE}, {TRUE})

(* Thread 1 reads the last byte, the other threads write the first. *)
NextFair ==
    \/ at24_bin_read(1, at24.bin.size - 1, 1) /\ UNCHANGED wrote
    \/ \E t \in Threads \ {1} : at24_bin_write(t, 0, <<1>>) /\ UNCHANGED wrote
    \/ \E t \in Threads : ProceedInRange(t)

SpecFair ==
    /\ InitFair
    /\ [][NextFair]_vars
    /\ \A t \in Threads : WF_vars(ProceedInRange(t)) /\ SF_vars(mutex_lock(t) /\ UNCHANGED wrote)

(* A call of t is between its entry and its return. *)
InCall(t) == pc[t] \in {"lock", "loop", "attempt", "sleep", "xret", "unlock"}

C18_State ==
    \A t \in Threads :
        /\ xfer[t].active =>
              /\ xfer[t].timeout = xfer[t].entered + msecs_to_jiffies(write_timeout)
              /\ xfer[t].tries <= msecs_to_jiffies(write_timeout) + 1
        /\ pc[t] \in {"sleep", "xret"} => xfer[t].tries >= 1
        /\ pc[t] = "xret" => (xfer[t].status > 0 \/ xfer[t].status = -ETIMEDOUT)

C18_Step ==
    \A t \in Threads :
        /\ (pc[t] = "attempt" /\ pc'[t] = "xret") => xfer'[t].status > 0
        /\ (pc[t] = "loop" /\ pc'[t] = "attempt") => xfer'[t].entered = jiffies
        /\ (pc[t] = "sleep" /\ pc'[t] # "sleep") => jiffies' > jiffies

(* C18: every engine call makes at least one pass and no more than its     *)
(* deadline, computed on its own entry, allows, and returns success or     *)
(* -ETIMEDOUT; a pass the bus answers returns success at once, whatever    *)
(* write_timeout; every request that has begun returns, and its thread     *)
(* then does not hold the lock.                                            *)
C18_Termination ==
    /\ []C18_State
    /\ [][C18_Step]_vars
    /\ \A t \in Threads : InCall(t) ~> (Returned(t) /\ lock # t)

(* C18 witness: with write_timeout 0 a request returned after a pass that  *)
(* timed out.                                                              *)
C18_Witness ==
    \E t \in Threads :
        /\ Returned(t) /\ hist[t].failed /\ write_timeout = 0
        /\ ret[t] = -ETIMEDOUT /\ lock # t

(* C19: a bound instance exposes a file of size byte_len with a read       *)
(* callback; the write callback is installed exactly when the mode has     *)
(* S_IWUSR, which is exactly when READONLY is clear and the adapter does   *)
(* full I2C or SMBus block writes; with the write callback installed,      *)
(* write_max is the least of page_size, io_limit and, without full I2C,    *)
(* 32, and is at least 1.                                                  *)
C19_WriteEnabling ==
    probe.pc = "bound" =>
        LET chip     == at24.chip
            func     == probe.arg.func
            readonly == (chip.flags \div 64) % 2 = 1
            iwusr    == (at24.bin.mode \div 128) % 2 = 1
            capable  == "I2C" \in func \/ "SMBUS_WRITE_I2C_BLOCK" \in func
            narrow   == "I2C" \notin func
            least    == Min(Min(chip.page_size, io_limit), IF narrow THEN 32 ELSE io_limit)
        IN  /\ at24 = probe.inst
            /\ at24.bin.size = chip.byte_len
            /\ at24.bin.read
            /\ at24.bin.write <=> iwusr
            /\ iwusr <=> (~readonly /\ capable)
            /\ at24.bin.write => (at24.write_max = least /\ at24.write_max >= 1)
            /\ readonly => ~at24.bin.write

(* C19 witness: a writable chip with 64-byte pages bound on an SMBus-only  *)
(* adapter that can write blocks: write_max is 32.                         *)
C19_Witness ==
    /\ probe.pc = "bound"
    /\ "I2C" \notin probe.arg.func
    /\ at24.bin.write /\ at24.write_max = 32
    /\ at24.chip.page_size = 64 /\ io_limit = 128

C20_State ==
    \A t \in Threads :
        call[t].kind = "read" =>
            LET fresh == pc[t] = "xret" /\ xfer[t].status > 0
                held  == IF fresh THEN call[t].pos + 1 ELSE call[t].pos
            IN  /\ \A i \in (held + 1)..call[t].len : call[t].buf[i] = 0
                /\ (Returned(t) /\ call[t].len >= 1) =>
                      /\ call[t].pos = (IF ret[t] < 0 THEN 0 ELSE ret[t])
                      /\ call[t].pos = hist[t].nok

C20_Step ==
    \A t \in Threads :
        (call[t].kind = "read" /\ pc[t] \notin {"idle", "done"}
            /\ call'[t].buf # call[t].buf) =>
            /\ pc[t] = "attempt" /\ pc'[t] = "xret" /\ xfer'[t].status > 0
            /\ \E b \in 0..255 :
                  /\ call'[t].buf = [call[t].buf EXCEPT ![call[t].pos + 1] = b]
                  /\ xfer[t].client < at24.num_addresses =>
                        b = Peek(xfer[t].client, ptr'[xfer[t].client])

(* C20: in a read of length L >= 1 every byte of the buffer at or after    *)
(* the number of bytes transferred so far is zero, so a call that returns  *)
(* k < L bytes, or an error (k = 0), leaves bytes k..L-1 zero; the buffer  *)
(* changes only when a transfer succeeds, and then only at the next        *)
(* position, which receives the byte the chip returned.                    *)
C20_ReadBuffer == []C20_State /\ [][C20_Step]_vars

(* C20 witness: a two-byte read returned 1: the first byte is the chip's,  *)
(* the second is zero.                                                     *)
C20_Witness ==
    \E t \in Threads :
        /\ Returned(t) /\ call[t].kind = "read" /\ call[t].len >= 2
        /\ ret[t] = 1
        /\ call[t].buf[1] = 255 /\ call[t].buf[2] = 0

(***************************************************************************)
(* The device table against the decode of at24_probe.                      *)
(***************************************************************************)
(* A probe has been entered for the k-th entry of the table, one of those  *)
(* built with AT24_DEVICE_MAGIC.                                           *)
C21_Probed(k) ==
    /\ FromTable
    /\ probe.pc # "unbound"
    /\ probe.arg.id = delta_at24_ids[k]

(* C21: for every entry of delta_at24_ids built with                       *)
(* AT24_DEVICE_MAGIC(len, flags) the magic is nonzero, and the decode of   *)
(* at24_probe gives byte_len = len and flags = the declared flags (the     *)
(* marker bit above the flags field dropped); the instance constructed     *)
(* from the entry has byte_len = len.                                      *)
C21_TableRoundTrip ==
    \A k \in DOMAIN delta_at24_args :
        C21_Probed(k) =>
            LET decl  == delta_at24_args[k]
                magic == probe.arg.id.driver_data
                chip  == DecodeMagic(magic)
            IN  /\ magic # 0
                /\ chip.byte_len = decl.len
                /\ chip.flags = decl.flags
                /\ Constructed => probe.inst.chip.byte_len = decl.len

(* The flags and the nonzero magic round-trip for every entry, and the     *)
(* decoded length is the largest power of two not above the declared one.  *)
C21_FlagsAndFloor ==
    \A k \in DOMAIN delta_at24_args :
        C21_Probed(k) =>
            LET decl  == delta_at24_args[k]
                magic == probe.arg.id.driver_data
                chip  == DecodeMagic(magic)
            IN  /\ magic # 0
                /\ chip.flags = decl.flags
                /\ chip.byte_len = 2^ilog2(decl.len)
                /\ chip.byte_len <= decl.len /\ decl.len < 2 * chip.byte_len

(* The entry on which the round trip fails: "24mac402-delta", declared     *)
(* with 48 / 8 = 6 bytes, is bound with byte_len 4.                        *)
C21_Mac402 ==
    /\ FromTable /\ probe.pc = "bound"
    /\ probe.arg.id.name = "24mac402-delta"
    /\ probe.inst.chip.byte_len = 4

====
